---- MODULE Spec2Model ----
(***************************************************************************)
(* Model of the shared-expense ledger of TravelCalculator                  *)
(* (src/streamlit_app.py): class ExpenseTracker and the button handlers of *)
(* main() that call it.                                                    *)
(*                                                                         *)
(* Representation.                                                         *)
(*  - A name is a Python str, modelled as the sequence of its character    *)
(*    codes, so that add_friend's canonicalisation is computed.            *)
(*  - Money is a Python float.  The amounts the model enters (BillForms) are *)
(*    whole cents chosen so that amount / n is a multiple of 50 cents for  *)
(*    every n a split list can have; such values, and every sum and        *)
(*    difference of them the model reaches, are exactly representable      *)
(*    doubles, so the integer arithmetic below (in cents) is the           *)
(*    arithmetic the program performs on these inputs.                     *)
(*  - An expense id is str(k); str is injective on naturals and ids are    *)
(*    only compared for equality, so the id is modelled as k.              *)
(*  - The 'date' field of an expense is never read by the ledger           *)
(*    operations and is left out.                                          *)
(*  - A handler that raises leaves the tracker as mutated so far (the      *)
(*    objects live in st.session_state); `error` records what the last     *)
(*    handler raised.                                                      *)
(*  - `assigned` logs the ids add_expense has handed out and `removals`    *)
(*    counts the friends removed; both are history kept for the bounds     *)
(*    and the properties, the program does not read them.                  *)
(***************************************************************************)
EXTENDS Integers, Sequences, FiniteSets, TLC

VARIABLES friends, expenses, balances, bills, error, assigned, removals

vars == <<friends, expenses, balances, bills, error, assigned, removals>>

(***************************************************************************)
(* Bounds                                                                  *)
(***************************************************************************)
\* the expenses recorded over the tracker's lifetime plus the bills still
\* pending never exceed this
MaxRecorded == 3
\* at most this many friends are removed over the tracker's lifetime
MaxRemovals == 2

(***************************************************************************)
(* Strings                                                                 *)
(***************************************************************************)
Space == 32

Alice == <<65, 108, 105, 99, 101>>
Bob == <<66, 111, 98>>
Carol == <<67, 97, 114, 111, 108>>

\* what the user types into "Enter friend's name":
\* "alice", "bob", "Bob", " bOB ", "carol"
RawNames ==
    { <<97, 108, 105, 99, 101>>,
      <<98, 111, 98>>,
      <<66, 111, 98>>,
      <<32, 98, 79, 66, 32>>,
      <<99, 97, 114, 111, 108>> }

\* what the user picks in "Select friend to remove"; also the participants
\* the properties range over
Names == {Alice, Bob, Carol}

\* what the user types into "Description": "", "Dinner"
Dinner == <<68, 105, 110, 110, 101, 114>>

\* what the user submits through the "Add Bill" form:
\* <<Description, Amount (in cents), Paid By, Split Among>>
BillForms ==
    { <<Dinner, 3000, Alice, <<Alice, Bob, Carol>>>>,
      <<Dinner, 2100, Bob, <<Bob, Carol>>>>,
      <<Dinner, 0, Alice, <<Alice, Bob>>>>,
      <<Dinner, 3000, Bob, << >>>>,
      << << >>, 3000, Carol, <<Carol>>>> }

\* st.selectbox over an empty option list returns None (falsy); as a value
\* it is a string no name equals
None == <<0>>

\* truth value of a str or a list: non-empty
Truthy(x) == x # << >>

Upper(c) == IF c \in 97..122 THEN c - 32 ELSE c
Lower(c) == IF c \in 65..90 THEN c + 32 ELSE c

\* str.capitalize()
CapitalizeWord(w) ==
    [i \in 1..Len(w) |-> IF i = 1 THEN Upper(w[i]) ELSE Lower(w[i])]

\* str.split(): the maximal runs of non-whitespace characters
RECURSIVE SplitFrom(_, _, _)
SplitFrom(s, i, cur) ==
    IF i > Len(s)
    THEN IF cur = << >> THEN << >> ELSE <<cur>>
    ELSE IF s[i] = Space
         THEN IF cur = << >>
              THEN SplitFrom(s, i + 1, << >>)
              ELSE <<cur>> \o SplitFrom(s, i + 1, << >>)
         ELSE SplitFrom(s, i + 1, Append(cur, s[i]))

Split(s) == SplitFrom(s, 1, << >>)

\* ' '.join(words)
RECURSIVE Join(_)
Join(words) ==
    IF words = << >> THEN << >>
    ELSE IF Len(words) = 1 THEN words[1]
    ELSE words[1] \o <<Space>> \o Join(Tail(words))

\* Canonical without .capitalize(): ' '.join(name.split())
CanonicalAsTyped(name) == Join(Split(name))

\* ' '.join(word.capitalize() for word in name.split())
Canonical(name) ==
    LET ws == Split(name)
    IN Join([i \in 1..Len(ws) |-> CapitalizeWord(ws[i])])

(***************************************************************************)
(* Lists and dicts                                                         *)
(***************************************************************************)
Range(s) == {s[i] : i \in 1..Len(s)}

\* x in list
In(x, s) == x \in Range(s)

\* list.remove(x): drops the first occurrence
RECURSIVE ListRemove(_, _)
ListRemove(s, x) ==
    IF s = << >> THEN << >>
    ELSE IF Head(s) = x THEN Tail(s)
    ELSE <<Head(s)>> \o ListRemove(Tail(s), x)

\* dict.get(k, 0)
Get(d, k) == IF k \in DOMAIN d THEN d[k] ELSE 0

\* d[k] = v
SetKey(d, k, v) == [x \in DOMAIN d \cup {k} |-> IF x = k THEN v ELSE d[x]]

\* DelKey without the del: the dict keeps the key
DelKeyKept(d, k) == d

\* del d[k]
DelKey(d, k) == [x \in DOMAIN d \ {k} |-> d[x]]

EmptyDict == [x \in {} |-> 0]

(***************************************************************************)
(* ExpenseTracker                                                          *)
(***************************************************************************)
NoError == "none"
Outcome(bal, err) == [balances |-> bal, error |-> err]

\* expense['amount'] / len(expense['splitAmong']); exact for Amounts (see
\* the header), the caller raises ZeroDivisionError when n = 0
PerPerson(amount, n) == amount \div n

\* UpdatePair with the sign slip of line 57: the member's entry toward the
\* payer is increased as well
UpdatePairSameSign(bal, paidBy, friend, per_person) ==
    IF friend = paidBy THEN Outcome(bal, NoError)
    ELSE IF paidBy \notin DOMAIN bal THEN Outcome(bal, "KeyError")
    ELSE LET b1 == SetKey(bal, paidBy,
                     SetKey(bal[paidBy], friend,
                            Get(bal[paidBy], friend) + per_person))
         IN IF friend \notin DOMAIN b1 THEN Outcome(b1, "KeyError")
            ELSE Outcome(SetKey(b1, friend,
                           SetKey(b1[friend], paidBy,
                                  Get(b1[friend], paidBy) + per_person)),
                         NoError)

\* update_balances, one iteration of the loop over expense['splitAmong']
UpdatePair(bal, paidBy, friend, per_person) ==
    IF friend = paidBy THEN Outcome(bal, NoError)
    ELSE IF paidBy \notin DOMAIN bal THEN Outcome(bal, "KeyError")
    ELSE LET b1 == SetKey(bal, paidBy,
                     SetKey(bal[paidBy], friend,
                            Get(bal[paidBy], friend) + per_person))
         IN IF friend \notin DOMAIN b1 THEN Outcome(b1, "KeyError")
            ELSE Outcome(SetKey(b1, friend,
                           SetKey(b1[friend], paidBy,
                                  Get(b1[friend], paidBy) - per_person)),
                         NoError)

RECURSIVE UpdateLoop(_, _, _, _)
UpdateLoop(bal, expense, per_person, i) ==
    IF i > Len(expense.splitAmong) THEN Outcome(bal, NoError)
    ELSE LET r == UpdatePair(bal, expense.paidBy, expense.splitAmong[i], per_person)
         IN IF r.error # NoError THEN r
            ELSE UpdateLoop(r.balances, expense, per_person, i + 1)

\* update_balances(expense)
UpdateBalances(bal, expense) ==
    IF Len(expense.splitAmong) = 0 THEN Outcome(bal, "ZeroDivisionError")
    ELSE UpdateLoop(bal, expense,
                    PerPerson(expense.amount, Len(expense.splitAmong)), 1)

\* the tracker fields add_expense reads and writes, with what it raised
Tracker(exps, bal, asg, err) ==
    [expenses |-> exps, balances |-> bal, assigned |-> asg, error |-> err]

\* add_expense(paid_by, amount, description, split_among): the expense is
\* appended before update_balances runs.  splitAtCreation keeps the split
\* list as it was passed in (remove_friend never touches it); assigned logs
\* the ids handed out.
AddExpense(t, bill) ==
    LET expense == [id |-> Len(t.expenses) + 1,
                    paidBy |-> bill.paidBy,
                    amount |-> bill.amount,
                    description |-> bill.description,
                    splitAmong |-> bill.splitAmong,
                    splitAtCreation |-> bill.splitAmong]
        r == UpdateBalances(t.balances, expense)
    IN Tracker(Append(t.expenses, expense), r.balances,
               Append(t.assigned, expense.id), r.error)

\* for bill in tracker.bills: tracker.add_expense(...)
RECURSIVE SubmitLoop(_, _, _)
SubmitLoop(t, bs, i) ==
    IF i > Len(bs) THEN t
    ELSE LET r == AddExpense(t, bs[i])
         IN IF r.error # NoError THEN r ELSE SubmitLoop(r, bs, i + 1)

\* CancelPair without line 66: only the payer's row is reversed
CancelPairPayerOnly(bal, paidBy, friend, per_person) ==
    IF friend = paidBy THEN Outcome(bal, NoError)
    ELSE IF paidBy \notin DOMAIN bal \/ friend \notin DOMAIN bal[paidBy]
         THEN Outcome(bal, "KeyError")
    ELSE Outcome(SetKey(bal, paidBy,
                   SetKey(bal[paidBy], friend, bal[paidBy][friend] - per_person)),
                 NoError)

\* cancel_expense, one iteration of the loop over expense['splitAmong']
CancelPair(bal, paidBy, friend, per_person) ==
    IF friend = paidBy THEN Outcome(bal, NoError)
    ELSE IF paidBy \notin DOMAIN bal \/ friend \notin DOMAIN bal[paidBy]
         THEN Outcome(bal, "KeyError")
    ELSE LET b1 == SetKey(bal, paidBy,
                     SetKey(bal[paidBy], friend, bal[paidBy][friend] - per_person))
         IN IF friend \notin DOMAIN b1 \/ paidBy \notin DOMAIN b1[friend]
            THEN Outcome(b1, "KeyError")
            ELSE Outcome(SetKey(b1, friend,
                           SetKey(b1[friend], paidBy,
                                  b1[friend][paidBy] + per_person)),
                         NoError)

RECURSIVE CancelLoop(_, _, _, _)
CancelLoop(bal, expense, per_person, i) ==
    IF i > Len(expense.splitAmong) THEN Outcome(bal, NoError)
    ELSE LET r == CancelPair(bal, expense.paidBy, expense.splitAmong[i], per_person)
         IN IF r.error # NoError THEN r
            ELSE CancelLoop(r.balances, expense, per_person, i + 1)

\* next((e for e in self.expenses if e['id'] == expense_id), None):
\* the index of the first match, 0 for None
FirstWithId(exps, expense_id) ==
    IF \E i \in 1..Len(exps) : exps[i].id = expense_id
    THEN CHOOSE i \in 1..Len(exps) :
            /\ exps[i].id = expense_id
            /\ \A j \in 1..(i - 1) : exps[j].id # expense_id
    ELSE 0

\* [e for e in self.expenses if e['id'] != expense_id]
RECURSIVE WithoutId(_, _)
WithoutId(exps, expense_id) ==
    IF exps = << >> THEN << >>
    ELSE IF Head(exps).id = expense_id THEN WithoutId(Tail(exps), expense_id)
    ELSE <<Head(exps)>> \o WithoutId(Tail(exps), expense_id)

\* cancel_expense without the "if expense:" guard of line 61: None is
\* subscripted when no expense has the id
CancelExpenseUnguarded(exps, bal, expense_id) ==
    LET k == FirstWithId(exps, expense_id)
    IN IF k = 0
       THEN [expenses |-> exps, balances |-> bal, error |-> "TypeError"]
       ELSE IF Len(exps[k].splitAmong) = 0
            THEN [expenses |-> exps, balances |-> bal,
                  error |-> "ZeroDivisionError"]
            ELSE LET r == CancelLoop(bal, exps[k],
                              PerPerson(exps[k].amount, Len(exps[k].splitAmong)), 1)
                 IN [expenses |-> IF r.error = NoError
                                  THEN WithoutId(exps, expense_id)
                                  ELSE exps,
                     balances |-> r.balances,
                     error |-> r.error]

\* cancel_expense(expense_id): the expenses, the balances and what it raised
CancelExpenseOp(exps, bal, expense_id) ==
    LET k == FirstWithId(exps, expense_id)
    IN IF k = 0
       THEN [expenses |-> exps, balances |-> bal, error |-> NoError]
       ELSE IF Len(exps[k].splitAmong) = 0
            THEN [expenses |-> exps, balances |-> bal,
                  error |-> "ZeroDivisionError"]
            ELSE LET r == CancelLoop(bal, exps[k],
                              PerPerson(exps[k].amount, Len(exps[k].splitAmong)), 1)
                 IN [expenses |-> IF r.error = NoError
                                  THEN WithoutId(exps, expense_id)
                                  ELSE exps,
                     balances |-> r.balances,
                     error |-> r.error]

\* the "Current Balances" listing: "<ower> owes <friend> $<amount>" for
\* every positive entry balances[friend][ower]
OwedList(bal) ==
    UNION { { <<ower, friend, bal[friend][ower]>> :
                ower \in {o \in DOMAIN bal[friend] : bal[friend][o] > 0} } :
            friend \in DOMAIN bal }

\* expense['splitAmong'].remove(name) for every expense / bill holding name
RemoveFromSplits(items, name) ==
    [i \in 1..Len(items) |->
        IF In(name, items[i].splitAmong)
        THEN [items[i] EXCEPT !.splitAmong = ListRemove(@, name)]
        ELSE items[i]]

(***************************************************************************)
(* The state after ExpenseTracker(name)                                    *)
(***************************************************************************)
Init ==
    /\ friends = << >>
    /\ expenses = << >>
    /\ balances = EmptyDict
    /\ bills = << >>
    /\ error = NoError
    /\ assigned = << >>
    /\ removals = 0

(***************************************************************************)
(* Handlers                                                                *)
(***************************************************************************)
\* tracker.add_friend(new_friend) behind "if new_friend:"
AddFriendName(new_friend) ==
    /\ Truthy(new_friend)
    /\ LET capitalized_name == Canonical(new_friend)
       IN IF ~In(capitalized_name, friends)
          THEN /\ friends' = Append(friends, capitalized_name)
               /\ balances' = SetKey(balances, capitalized_name, EmptyDict)
          ELSE UNCHANGED <<friends, balances>>
    /\ error' = NoError
    /\ UNCHANGED <<expenses, bills, assigned, removals>>

\* "Add Friend": tracker.add_friend(new_friend)
AddFriend == \E new_friend \in RawNames : AddFriendName(new_friend)

\* "Remove Friend": tracker.remove_friend(friend_to_remove)
RemoveFriend ==
    \E name \in Names :
        /\ Truthy(name)
        /\ IF In(name, friends)
           THEN /\ friends' = ListRemove(friends, name)
                /\ balances' = DelKey(balances, name)
                /\ expenses' = RemoveFromSplits(expenses, name)
                /\ bills' = RemoveFromSplits(bills, name)
           ELSE UNCHANGED <<friends, balances, expenses, bills>>
        /\ error' = NoError
        /\ removals < MaxRemovals
        /\ removals' = IF In(name, friends) THEN removals + 1 ELSE removals
        /\ UNCHANGED assigned

\* AddBill recording an accepted bill at once with add_expense instead of
\* appending it to tracker.bills
AddBillRecording ==
    \E form \in BillForms :
        LET description == form[1]
            amount_float == form[2]
            paid_by == IF friends = << >> THEN None ELSE form[3]
            split_among == form[4]
        IN /\ paid_by = None \/ In(paid_by, friends)
           /\ Range(split_among) \subseteq Range(friends)
           /\ Len(assigned) + Len(bills) < MaxRecorded
           /\ IF Truthy(description) /\ amount_float > 0
                 /\ paid_by # None /\ Truthy(paid_by) /\ Truthy(split_among)
              THEN LET r == AddExpense(Tracker(expenses, balances, assigned, NoError),
                                       [description |-> description,
                                        amount |-> amount_float,
                                        paidBy |-> paid_by,
                                        splitAmong |-> split_among])
                   IN /\ expenses' = r.expenses
                      /\ balances' = r.balances
                      /\ assigned' = r.assigned
                      /\ error' = r.error
              ELSE /\ error' = NoError
                   /\ UNCHANGED <<expenses, balances, assigned>>
           /\ UNCHANGED <<friends, bills, removals>>

\* "Add Bill": the add_bill_form handler.  The widgets offer only the
\* current friends: paid_by is one of them (None when there is none) and
\* split_among is a list of them.
AddBill ==
    \E form \in BillForms :
        LET description == form[1]
            amount_float == form[2]
            paid_by == IF friends = << >> THEN None ELSE form[3]
            split_among == form[4]
        IN /\ paid_by = None \/ In(paid_by, friends)
           /\ Range(split_among) \subseteq Range(friends)
           /\ Len(assigned) + Len(bills) < MaxRecorded
           /\ IF Truthy(description) /\ amount_float > 0
                 /\ paid_by # None /\ Truthy(paid_by) /\ Truthy(split_among)
              THEN bills' = Append(bills, [description |-> description,
                                           amount |-> amount_float,
                                           paidBy |-> paid_by,
                                           splitAmong |-> split_among])
              ELSE UNCHANGED bills
           /\ error' = NoError
           /\ UNCHANGED <<friends, expenses, balances, assigned, removals>>

\* "Submit All Bills"
SubmitAllBills ==
    /\ bills # << >>
    /\ Len(assigned) + Len(bills) <= MaxRecorded
    /\ LET r == SubmitLoop(Tracker(expenses, balances, assigned, NoError), bills, 1)
       IN /\ expenses' = r.expenses
          /\ balances' = r.balances
          /\ assigned' = r.assigned
          /\ error' = r.error
          /\ bills' = IF r.error = NoError THEN << >> ELSE bills
    /\ UNCHANGED <<friends, removals>>

\* tracker.cancel_expense(expense_id) on the session's tracker
CancelExpenseId(expense_id) ==
    LET r == CancelExpenseOp(expenses, balances, expense_id)
    IN /\ expenses' = r.expenses
       /\ balances' = r.balances
       /\ error' = r.error
       /\ UNCHANGED <<friends, bills, assigned, removals>>

\* "Cancel Expense": tracker.cancel_expense(expense_id)
CancelExpense == \E expense_id \in 1..MaxRecorded : CancelExpenseId(expense_id)

Next ==
    \/ AddFriend
    \/ RemoveFriend
    \/ AddBill
    \/ SubmitAllBills
    \/ CancelExpense

Spec == Init /\ [][Next]_vars

TypeOK ==
    /\ Range(friends) \subseteq Names
    /\ DOMAIN balances \subseteq Names
    /\ error \in {NoError, "KeyError", "ZeroDivisionError"}
    /\ Len(assigned) <= MaxRecorded
    /\ removals \in 0..MaxRemovals

(***************************************************************************)
(* Properties                                                              *)
(***************************************************************************)
\* balance[a][b], an absent row or entry counting as 0
Bal(bal, a, b) ==
    IF a \in DOMAIN bal /\ b \in DOMAIN bal[a] THEN bal[a][b] ELSE 0

RECURSIVE SumOver(_, _, _)
\* the sum of f[i] for i in lo..hi
SumOver(f, lo, hi) == IF lo > hi THEN 0 ELSE f[lo] + SumOver(f, lo + 1, hi)

\* what recording an expense paid by paidBy, of this amount, split among
\* this list, adds to balance[a][b]: + amount / n for the payer toward each
\* other member, - amount / n for each other member toward the payer
ShareEffect(paidBy, amount, splitAmong, a, b) ==
    IF a = b \/ splitAmong = << >> THEN 0
    ELSE IF a = paidBy /\ In(b, splitAmong) THEN amount \div Len(splitAmong)
    ELSE IF b = paidBy /\ In(a, splitAmong) THEN 0 - (amount \div Len(splitAmong))
    ELSE 0

\* the sum over a list of bills or expenses of what recording each adds to
\* balance[a][b], by the split list each was created with
EffectOfBills(bs, a, b) ==
    SumOver([i \in 1..Len(bs) |->
                ShareEffect(bs[i].paidBy, bs[i].amount, bs[i].splitAmong, a, b)],
            1, Len(bs))

EffectOfExpenses(exps, a, b) ==
    SumOver([i \in 1..Len(exps) |->
                ShareEffect(exps[i].paidBy, exps[i].amount,
                            exps[i].splitAtCreation, a, b)],
            1, Len(exps))

\* C1. Antisymmetry: in every reachable state balance[A][B] = -balance[B][A]
\* for all participants A and B, an absent entry counting as 0.
C1_Antisymmetry ==
    \A a \in Names, b \in Names :
        Bal(balances, a, b) = 0 - Bal(balances, b, a)

\* C2. Derived view: in every reachable state each balance[A][B] equals the
\* sum, over exactly the expenses now in history, of what recording that
\* expense applied (its share as of creation).
C2_DerivedView ==
    \A a \in Names, b \in Names :
        Bal(balances, a, b) = EffectOfExpenses(expenses, a, b)

\* the bills the "Add Bill" form accepts in the current state
StageableBills ==
    { [description |-> form[1], amount |-> form[2],
       paidBy |-> form[3], splitAmong |-> form[4]] :
        form \in { f \in BillForms :
                     /\ Truthy(f[1]) /\ f[2] > 0 /\ Truthy(f[4])
                     /\ In(f[3], friends)
                     /\ Range(f[4]) \subseteq Range(friends) } }

\* C3. Cancellation inverts recording: from every reachable state, recording
\* an expense X and at once cancelling the id X was given restores the
\* balance matrix values and the history that existed before the recording.
C3_CancelInvertsRecord ==
    \A bill \in StageableBills :
        LET t == AddExpense(Tracker(expenses, balances, assigned, NoError), bill)
            id == t.expenses[Len(t.expenses)].id
            c == CancelExpenseOp(t.expenses, t.balances, id)
        IN /\ c.expenses = expenses
           /\ \A a \in Names, b \in Names :
                 Bal(c.balances, a, b) = Bal(balances, a, b)

\* C4. Id uniqueness: in every reachable state no two expenses in history
\* have the same id.
C4_IdUnique ==
    \A i \in 1..Len(expenses), j \in 1..Len(expenses) :
        i # j => expenses[i].id # expenses[j].id

\* C5. Id monotonicity: every id add_expense assigns is strictly greater
\* than every id it assigned earlier, so no id is assigned twice.
C5_IdMonotonic ==
    \A i \in 1..Len(assigned), j \in 1..Len(assigned) :
        i < j => assigned[i] < assigned[j]

\* C6. Zero-sum: in every reachable state the entries of the balance matrix
\* sum to 0.
C6_ZeroSum ==
    LET rows == CHOOSE q \in [1..Cardinality(DOMAIN balances) -> DOMAIN balances] :
                    \A i, j \in DOMAIN q : i # j => q[i] # q[j]
        RowSum(a) ==
            LET keys == CHOOSE q \in [1..Cardinality(DOMAIN balances[a])
                                        -> DOMAIN balances[a]] :
                            \A i, j \in DOMAIN q : i # j => q[i] # q[j]
            IN SumOver([i \in 1..Len(keys) |-> balances[a][keys[i]]], 1, Len(keys))
    IN SumOver([i \in 1..Len(rows) |-> RowSum(rows[i])], 1, Len(rows)) = 0

\* a step in which add_expense ran: "Submit All Bills"
SubmitStep == assigned' # assigned

\* recording this bill touches balance[a][b]
Touches(bill, a, b) ==
    /\ a # b
    /\ \/ a = bill.paidBy /\ In(b, bill.splitAmong)
       \/ b = bill.paidBy /\ In(a, bill.splitAmong)

\* the payer is registered and the split list is not empty
WellFormed(bill) == In(bill.paidBy, friends) /\ bill.splitAmong # << >>

\* C7. Equal split: recording bills whose payer is registered and whose
\* split list is non-empty succeeds and changes the matrix by exactly
\* share = amount / n per bill for each member p # paidBy of its split list
\* (balance[paidBy][p] up by share, balance[p][paidBy] down by share),
\* changes or creates no entry for any other pair, and creates no entry of
\* a payer toward themselves.
C7_EqualSplit ==
    [][ (SubmitStep /\ \A i \in 1..Len(bills) : WellFormed(bills[i]))
        => /\ error' = NoError
           /\ \A a \in Names, b \in Names :
                 Bal(balances', a, b)
                     = Bal(balances, a, b) + EffectOfBills(bills, a, b)
           /\ DOMAIN balances' = DOMAIN balances
           /\ \A a \in DOMAIN balances :
                 DOMAIN balances'[a]
                     = DOMAIN balances[a]
                       \cup {b \in Names :
                               \E i \in 1..Len(bills) : Touches(bills[i], a, b)}
           /\ \A i \in 1..Len(bills) :
                 bills[i].paidBy \notin DOMAIN balances'[bills[i].paidBy] ]_vars

\* Alice's 30 split three ways has been recorded on a fresh tracker
C7_Witness ==
    /\ error = NoError
    /\ bills = << >>
    /\ assigned = <<1>>
    /\ removals = 0
    /\ Len(expenses) = 1
    /\ expenses[1].paidBy = Alice
    /\ expenses[1].splitAmong = <<Alice, Bob, Carol>>
    /\ Bal(balances, Alice, Bob) = 1000
    /\ Bal(balances, Bob, Alice) = 0 - 1000
    /\ Bal(balances, Alice, Carol) = 1000
    /\ Bal(balances, Carol, Alice) = 0 - 1000
    /\ Bal(balances, Bob, Carol) = 0

\* the reference scenario's bills and the states it passes through
BillAlice30 ==
    [description |-> Dinner, amount |-> 3000, paidBy |-> Alice,
     splitAmong |-> <<Alice, Bob, Carol>>]
BillBob21 ==
    [description |-> Dinner, amount |-> 2100, paidBy |-> Bob,
     splitAmong |-> <<Bob, Carol>>]

\* participants {Alice, Bob, Carol}, nothing recorded yet, Alice's bill staged
ScenarioStart ==
    /\ Range(friends) = {Alice, Bob, Carol}
    /\ expenses = << >>
    /\ assigned = << >>
    /\ removals = 0
    /\ \A a \in Names : balances[a] = EmptyDict
    /\ bills = <<BillAlice30>>

\* after Alice pays 30 split among all three
ScenarioAfterAlice ==
    /\ Range(friends) = {Alice, Bob, Carol}
    /\ Len(expenses) = 1
    /\ expenses[1].id = 1
    /\ expenses[1].paidBy = Alice
    /\ expenses[1].amount = 3000
    /\ expenses[1].splitAmong = <<Alice, Bob, Carol>>
    /\ assigned = <<1>>
    /\ removals = 0
    /\ bills = << >>
    /\ error = NoError
    /\ OwedList(balances) = {<<Bob, Alice, 1000>>, <<Carol, Alice, 1000>>}
    /\ \A a \in Names, b \in Names :
          Bal(balances, a, b) = IF a = Alice /\ b # Alice THEN 1000
                                ELSE IF b = Alice /\ a # Alice THEN 0 - 1000
                                ELSE 0

\* after that expense is cancelled
ScenarioAfterCancel ==
    /\ Range(friends) = {Alice, Bob, Carol}
    /\ expenses = << >>
    /\ assigned = <<1>>
    /\ removals = 0
    /\ error = NoError
    /\ OwedList(balances) = {}
    /\ \A a \in Names, b \in Names : Bal(balances, a, b) = 0

\* after Bob then pays 21 split between Bob and Carol
ScenarioAfterBob ==
    /\ Range(friends) = {Alice, Bob, Carol}
    /\ Len(expenses) = 1
    /\ expenses[1].paidBy = Bob
    /\ expenses[1].amount = 2100
    /\ expenses[1].splitAmong = <<Bob, Carol>>
    /\ assigned = <<1, 1>>
    /\ removals = 0
    /\ bills = << >>
    /\ error = NoError
    /\ OwedList(balances) = {<<Carol, Bob, 1050>>}

\* C8. Reference scenario: with participants {Alice, Bob, Carol}, after
\* Alice pays 30 split among all three the listing shows Bob owes Alice 10,
\* Carol owes Alice 10 and nothing else; cancelling that expense leaves every
\* balance 0 and an empty listing; Bob then paying 21 split between Bob and
\* Carol leaves exactly "Carol owes Bob 10.50".
C8_ReferenceScenario ==
    [][ /\ (ScenarioStart /\ SubmitStep) => ScenarioAfterAlice'
        /\ (ScenarioAfterAlice /\ expenses' # expenses /\ friends' = friends)
              => ScenarioAfterCancel'
        /\ (ScenarioAfterCancel /\ bills = <<BillBob21>> /\ SubmitStep)
              => ScenarioAfterBob' ]_vars

\* the end of the reference scenario
C8_Witness == ScenarioAfterBob /\ \A a \in Names : Bal(balances, a, Alice) = 0

\* C9. All-or-nothing commit: a "Submit All Bills" attempt ends either with
\* the queue empty and one expense recorded, with its balance effect, for
\* every staged bill, or with queue, history and matrix as before.
C9_AllOrNothing ==
    [][ SubmitStep
        => \/ /\ bills' = << >>
              /\ Len(expenses') = Len(expenses) + Len(bills)
              /\ \A a \in Names, b \in Names :
                    Bal(balances', a, b)
                        = Bal(balances, a, b) + EffectOfBills(bills, a, b)
           \/ /\ bills' = bills
              /\ expenses' = expenses
              /\ balances' = balances ]_vars

\* a step in which cancel_expense found the id: it removed expenses or raised
CancelFoundStep ==
    /\ assigned' = assigned
    /\ friends' = friends
    /\ expenses' # expenses \/ error' # NoError

\* C10. Frozen share on cancel: cancelling an expense in history does not
\* fail and takes back exactly what recording it applied, by the amount and
\* the split list it was created with, also when participants of it were
\* removed (or removed and re-added) in between.
C10_FrozenShare ==
    [][ CancelFoundStep
        => /\ error' = NoError
           /\ \E k \in 1..Len(expenses) :
                 /\ expenses' = WithoutId(expenses, expenses[k].id)
                 /\ \A a \in Names, b \in Names :
                       Bal(balances', a, b)
                           = Bal(balances, a, b)
                             - ShareEffect(expenses[k].paidBy, expenses[k].amount,
                                           expenses[k].splitAtCreation, a, b) ]_vars

\* some balance[a][b] has another value after the step
BalanceValuesChange ==
    \E a \in Names, b \in Names : Bal(balances', a, b) # Bal(balances, a, b)

\* a step in which remove_friend removed a registered friend
RemoveStep == removals' # removals

\* C11 as stated. Staged-bill isolation: "Add Bill", accepted or rejected,
\* changes neither the balance matrix nor the expense history, and balance
\* values change only in "Submit All Bills" and "Cancel Expense" steps.
C11_OnlyCommitAndCancel ==
    [][ /\ AddBill => (balances' = balances /\ expenses' = expenses)
        /\ BalanceValuesChange => (SubmitStep \/ CancelFoundStep) ]_vars

\* C11, amended. "Add Bill", accepted or rejected, changes neither the
\* balance matrix nor the expense history; balance values change only in
\* "Submit All Bills", "Cancel Expense" and "Remove Friend" steps, the last
\* by deleting the removed friend's row.
C11_StagedBillIsolation ==
    [][ /\ AddBill => (balances' = balances /\ expenses' = expenses)
        /\ BalanceValuesChange
              => (SubmitStep \/ CancelFoundStep \/ RemoveStep)
        /\ (BalanceValuesChange /\ RemoveStep)
              => \E name \in DOMAIN balances :
                    balances' = DelKey(balances, name) ]_vars

\* Bob's bill is staged on top of Alice's recorded expense and the matrix
\* still shows only Alice's expense
C11_Witness ==
    /\ bills = <<BillBob21>>
    /\ Len(expenses) = 1
    /\ expenses[1].paidBy = Alice
    /\ removals = 0
    /\ error = NoError
    /\ Bal(balances, Alice, Bob) = 1000
    /\ Bal(balances, Bob, Carol) = 0

\* C12. Removing a registered participant leaves no balance-matrix entry
\* that references the name, neither the row keyed by it nor the inner key
\* in any other row; registering a name then starts with every balance that
\* involves it equal to 0 in both directions.
C12_RemovalLeavesNoEntry ==
    [][ /\ \A name \in Range(friends) \ Range(friends') :
              /\ name \notin DOMAIN balances'
              /\ \A a \in DOMAIN balances' : name \notin DOMAIN balances'[a]
        /\ \A name \in Range(friends') \ Range(friends) :
              \A a \in Names :
                 Bal(balances', name, a) = 0 /\ Bal(balances', a, name) = 0 ]_vars

RECURSIVE CountId(_, _)
\* how many times id occurs in a list of ids
CountId(ids, id) ==
    IF ids = << >> THEN 0
    ELSE (IF Head(ids) = id THEN 1 ELSE 0) + CountId(Tail(ids), id)

\* the ids of the expenses in history, in order
HistoryIds == [i \in 1..Len(expenses) |-> expenses[i].id]

\* cancel_expense has removed an expense that was given this id: the id was
\* handed out more often than it is in history (only cancel_expense takes
\* expenses out of history)
WasCancelled(id) == CountId(assigned, id) > CountId(HistoryIds, id)

\* C13. A cancelled id stays cancelled: in every state reached after
\* cancel_expense removed an expense with some id, whatever happened since,
\* cancelling that id finds no expense and changes neither the balance
\* matrix nor the history.
C13_CancelledStaysCancelled ==
    \A id \in 1..MaxRecorded :
        WasCancelled(id)
            => LET c == CancelExpenseOp(expenses, balances, id)
               IN /\ FirstWithId(expenses, id) = 0
                  /\ c.expenses = expenses
                  /\ c.balances = balances

\* no expense in history has this id
AbsentId(id) == \A i \in 1..Len(expenses) : expenses[i].id # id

C15_OwedListOneDirection ==
    \A t \in OwedList(balances) :
        /\ t[3] > 0
        /\ \A u \in OwedList(balances) : ~(u[1] = t[2] /\ u[2] = t[1])

\* a name with every letter in lower case
Folded(name) == [i \in 1..Len(name) |-> Lower(name[i])]

\* what the user types: "bob", "Bob"
TypedLowerBob == <<98, 111, 98>>
TypedBob == <<66, 111, 98>>

\* C16. Idempotent participant add: add_friend of a name whose canonical
\* form is already registered changes nothing (friends, balances, expenses
\* and bills as before), so friends never holds two entries with the same
\* canonical name, whatever the case typed; in particular add_friend("bob")
\* then add_friend("Bob") yields exactly one participant "Bob".
C16_IdempotentAdd ==
    [][ /\ \A i \in 1..Len(friends'), j \in 1..Len(friends') :
              i # j => Folded(friends'[i]) # Folded(friends'[j])
        /\ Range(friends') \subseteq Names
        /\ UNCHANGED <<expenses, bills, assigned, removals>>
              => /\ \A raw \in RawNames :
                       (In(Canonical(raw), friends) /\ AddFriendName(raw))
                          => UNCHANGED <<friends, balances, expenses, bills>>
                 /\ AddFriendName(TypedLowerBob)
                       => Cardinality({i \in 1..Len(friends') :
                                          friends'[i] = Bob}) = 1
                 /\ (In(Bob, friends) /\ AddFriendName(TypedBob))
                       => /\ friends' = friends
                          /\ Cardinality({i \in 1..Len(friends') :
                                    Folded(friends'[i]) = TypedLowerBob}) = 1 ]_vars

\* Bob is registered once, after Alice, and holds a balance
C16_Witness ==
    /\ friends = <<Alice, Bob, Carol>>
    /\ removals = 0
    /\ Bal(balances, Bob, Carol) = 1050
    /\ error = NoError

\* the list without its k-th element
DropAt(s, k) == [i \in 1..(Len(s) - 1) |-> IF i < k THEN s[i] ELSE s[i + 1]]

\* C17. cancel_expense of an id present in history removes exactly one
\* expense from history and leaves every other expense, and the order of
\* the remaining expenses, unchanged.
C17_CancelRemovesOne ==
    [][ \A id \in 1..MaxRecorded :
           (~AbsentId(id) /\ CancelExpenseId(id) /\ error' = NoError)
              => \E k \in 1..Len(expenses) :
                    /\ expenses[k].id = id
                    /\ expenses' = DropAt(expenses, k) ]_vars

\* C18. Non-empty split: in every reachable state every pending bill and
\* every expense in history has a non-empty splitAmong, also after
\* remove_friend took names out of split lists, so the divisor
\* len(splitAmong) of update_balances and cancel_expense is never 0.
C18_NonEmptySplit ==
    /\ \A i \in 1..Len(bills) : Len(bills[i].splitAmong) > 0
    /\ \A i \in 1..Len(expenses) : Len(expenses[i].splitAmong) > 0
    /\ error # "ZeroDivisionError"

\* C19. Pending bills stay valid: in every reachable state every pending
\* bill has a paidBy that is a registered participant and a splitAmong whose
\* members are all registered participants, so "Submit All Bills" never
\* fails on a bill the form accepted, also when participants were removed
\* in between.
C19_PendingBillsValid ==
    /\ \A i \in 1..Len(bills) :
          /\ In(bills[i].paidBy, friends)
          /\ Range(bills[i].splitAmong) \subseteq Range(friends)
    /\ SubmitLoop(Tracker(expenses, balances, assigned, NoError), bills, 1).error
          = NoError

\* C20. Registry/matrix correspondence: in every reachable state the row
\* keys of the balance matrix are exactly the registered participants;
\* add_friend of a new name creates exactly one row, empty, and
\* remove_friend deletes exactly the removed participant's row, every other
\* row staying as it was.
C20_RegistryMatrix ==
    /\ [](DOMAIN balances = Range(friends))
    /\ [][ /\ \A name \in Range(friends') \ Range(friends) :
                 /\ friends' = Append(friends, name)
                 /\ DOMAIN balances' = DOMAIN balances \cup {name}
                 /\ name \notin DOMAIN balances
                 /\ balances'[name] = EmptyDict
                 /\ \A a \in DOMAIN balances : balances'[a] = balances[a]
           /\ \A name \in Range(friends) \ Range(friends') :
                 /\ friends' = ListRemove(friends, name)
                 /\ DOMAIN balances' = DOMAIN balances \ {name}
                 /\ \A a \in DOMAIN balances' : balances'[a] = balances[a] ]_vars

\* Bob was removed after Alice's expense was recorded: his row is gone and
\* the rows of Alice and Carol are the registered ones
C20_Witness ==
    /\ friends = <<Alice, Carol>>
    /\ DOMAIN balances = {Alice, Carol}
    /\ removals = 1
    /\ Len(expenses) = 1
    /\ Bal(balances, Alice, Carol) = 1000
    /\ Bal(balances, Carol, Alice) = 0 - 1000

====
